---- MODULE Spec2Model ----
(***************************************************************************)
(* Document compilation pipeline of MaTultimate.                           *)
(*                                                                         *)
(* Two snapshots of DocumentCompiler are modelled side by side:            *)
(*   matultimate-backend/backend/app/core/compiler.py  (kinds typst,       *)
(*       latex, figure, hybrid: session directories compile_<id> under a   *)
(*       shared work_dir), and                                             *)
(*   backend/app/core/compiler.py (kinds bfigure, bhybrid: directories     *)
(*       from tempfile.TemporaryDirectory).                                *)
(*                                                                         *)
(* A call is an asyncio task.  The code between two awaits runs without    *)
(* interruption, so every action is one such stretch of a coroutine.  The  *)
(* external tools are the environment: a child process may exit with any   *)
(* exit code, with or without its output file, or never exit at all.       *)
(***************************************************************************)
EXTENDS Integers, Sequences, FiniteSets, TLC

\* ------------------------------------------------------------------ bounds
NumSessionIds == 2
MaxFigs == 2

Calls == {"A", "B"}
SessionIds == 1..NumSessionIds
FigIds == 1..MaxFigs

Tools == {"typst", "pdflatex", "pdftoppm", "convert"}
MBKinds == {"typst", "latex", "figure", "hybrid"}
BKKinds == {"bfigure", "bhybrid"}

\* compile_latex(runs=2): the default number of pdflatex runs
Runs == 2

NoDir == <<"none", 0>>
NoProc == [tool |-> "none", st |-> "none"]
NoBytes == [call |-> "none", n |-> 0]
NoReport == [status |-> "none"]
NoResult == [status |-> "none", success |-> FALSE, bytes |-> NoBytes,
             log |-> "none", warnings |-> <<>>, cause |-> "none"]

\* ------------------------------------------------------------------ bounds of the texts
MaxLen == 4
MaxTag == 2
MaxBody == 2

\* ------------------------------------------------------------------ source text
\* A source text is a sequence of symbols.  "i" stands for the word image,
\* "q" for the opening "figurer/ of a relative figure path, "Q" for the
\* opening of the absolute path into the session's figure directory, a
\* digit n for <n>.png" and "x" for ordinary text.  Doc1 shows figure 1
\* twice: as #image(...) and as image(...), the way it stands inside the
\* argument list of #figure.  Doc2 holds a LaTeX control sequence and an
\* open parenthesis.
Doc1 == <<"#", "i", "(", "q", "1", ")", "i", "(", "q", "1", ")">>
Doc2 == <<"x", "\\cdot", "(">>
Docs == {Doc1, Doc2}

\* In the texts handed to the sanitizers "fence" is a run of three backquotes,
\* "typst" and "latex" are those words, "a" is a letter and "3" a digit; a
\* LaTeX control sequence is one symbol that starts with a backslash, and
\* "frac", "sqrt", "dot", "times", "oo" are the Typst words that replace them.
FENCE == "fence"
NL == "\n"
SP == " "
Letters == {"typst", "latex", "a", "i", "x", "frac", "sqrt", "dot", "times", "oo"}
Digits == {"3"}
Word == Letters \cup Digits
Space == {NL, SP}

\* a phase of compile_hybrid: "figure" and "figend" (figure n starts, ends),
\* "rewrite", "sanitize", "main"; an entry of the sanitizer's changes:
\* "fence" (pattern n matched), "fenceline" (line n removed), "rstrip",
\* "blank", "repair" (fix n changed the text)
Ev(e, n) == [e |-> e, n |-> n]

\* F(v), with v evaluated once whatever use F makes of it
Once(F(_), v) == CHOOSE r \in {F(x) : x \in {v}} : TRUE

RECURSIVE Count(_, _)
Count(text, sym) ==
  IF text = <<>> THEN 0
  ELSE (IF Head(text) = sym THEN 1 ELSE 0) + Count(Tail(text), sym)

\* str.replace of #image("figurer/ by #image("<figures_dir>/, from position i on
RECURSIVE ReplaceFrom(_, _)
ReplaceFrom(text, i) ==
  IF i > Len(text) THEN <<>>
  ELSE IF i + 3 <= Len(text) /\ SubSeq(text, i, i + 3) = <<"#", "i", "(", "q">>
  THEN <<"#", "i", "(", "Q">> \o ReplaceFrom(text, i + 4)
  ELSE <<text[i]>> \o ReplaceFrom(text, i + 1)

\* typst_code.replace('#image("figurer/', f'#image("{figures_dir}/')
RewriteImagePaths(text) == Once(LAMBDA t : ReplaceFrom(t, 1), text)

\* the balance warnings of _fix_typst, in the order the code appends them
TypstWarnings(text) ==
  (IF Count(text, "[") # Count(text, "]") THEN <<[t |-> "san", id |-> 1]>> ELSE <<>>)
  \o (IF Count(text, "(") # Count(text, ")") THEN <<[t |-> "san", id |-> 2]>> ELSE <<>>)
  \o (IF Count(text, "{") # Count(text, "}") THEN <<[t |-> "san", id |-> 3]>> ELSE <<>>)

\* the warnings of _fix_latex
LatexWarnings(text) ==
  (IF Count(text, "\\begin") # Count(text, "\\end") THEN <<[t |-> "san", id |-> 4]>> ELSE <<>>)
  \o (IF (Count(text, "$") - Count(text, "\\$")) % 2 # 0
      THEN <<[t |-> "san", id |-> 5]>> ELSE <<>>)

SanitizeWarnings(text, format) ==
  IF format = "typst" THEN TypstWarnings(text) ELSE LatexWarnings(text)

\* ------------------------------------------------------------------ sanitizers
\* the first position from i on whose symbol is not in W
RECURSIVE RunEnd(_, _, _)
RunEnd(text, i, W) ==
  IF i <= Len(text) /\ text[i] \in W THEN RunEnd(text, i + 1, W) ELSE i

From(text, i) == SubSeq(text, i, Len(text))

\* str.lstrip, str.rstrip, str.strip
LStrip(text) == From(text, RunEnd(text, 1, Space))

RECURSIVE RStrip(_)
RStrip(text) ==
  IF text # <<>> /\ text[Len(text)] \in Space THEN RStrip(SubSeq(text, 1, Len(text) - 1))
  ELSE text

Strip(text) == RStrip(LStrip(text))

\* str.split('\n') and '\n'.join
RECURSIVE Split(_)
Split(text) ==
  LET e == RunEnd(text, 1, {text[k] : k \in 1..Len(text)} \ {NL})
  IN IF e > Len(text) THEN <<text>>
     ELSE <<SubSeq(text, 1, e - 1)>> \o Split(From(text, e + 1))

RECURSIVE Join(_)
Join(lines) ==
  IF lines = <<>> THEN <<>>
  ELSE IF Len(lines) = 1 THEN lines[1]
  ELSE lines[1] \o <<NL>> \o Join(Tail(lines))

\* the anchors ^ and $: with re.MULTILINE at every line, without it at the
\* ends of the text ($ also before a last newline)
LineStart(text, i, multiline) == i = 1 \/ (multiline /\ text[i - 1] = NL)
LineEnd(text, i, multiline) ==
  \/ i > Len(text)
  \/ text[i] = NL /\ (multiline \/ i = Len(text))

\* where the language tag that starts at i ends, 0 if the pattern wants a tag
\* and there is none: (?:typst|typ), (?:latex|tex), \w*, nothing, [a-zA-Z]*
TagEnd(text, i, tag) ==
  IF tag \in {"typst", "latex"}
  THEN (IF i <= Len(text) /\ text[i] = tag THEN i + 1 ELSE 0)
  ELSE IF tag = "word" THEN RunEnd(text, i, Word)
  ELSE IF tag = "letters" THEN RunEnd(text, i, Letters)
  ELSE i

\* re.sub of ^FENCE<tag>\n? by nothing, from position i on
RECURSIVE SubStartFence(_, _, _, _)
SubStartFence(text, i, tag, multiline) ==
  IF i > Len(text) THEN <<>>
  ELSE LET e == IF text[i] = FENCE /\ LineStart(text, i, multiline)
                THEN TagEnd(text, i + 1, tag) ELSE 0
       IN IF e = 0 THEN <<text[i]>> \o SubStartFence(text, i + 1, tag, multiline)
          ELSE SubStartFence(text, IF e <= Len(text) /\ text[e] = NL THEN e + 1 ELSE e,
                             tag, multiline)

\* re.sub of \n?FENCE$ (newline TRUE) or of FENCE$ by nothing, from position i on
RECURSIVE SubEndFence(_, _, _, _)
SubEndFence(text, i, newline, multiline) ==
  IF i > Len(text) THEN <<>>
  ELSE IF newline /\ text[i] = NL /\ i < Len(text) /\ text[i + 1] = FENCE
          /\ LineEnd(text, i + 2, multiline)
  THEN SubEndFence(text, i + 2, newline, multiline)
  ELSE IF text[i] = FENCE /\ LineEnd(text, i + 1, multiline)
  THEN SubEndFence(text, i + 1, newline, multiline)
  ELSE <<text[i]>> \o SubEndFence(text, i + 1, newline, multiline)

\* re.sub of ^FENCE$ by nothing, from position i on
RECURSIVE SubLoneFence(_, _)
SubLoneFence(text, i) ==
  IF i > Len(text) THEN <<>>
  ELSE IF text[i] = FENCE /\ LineStart(text, i, TRUE) /\ LineEnd(text, i + 1, TRUE)
  THEN SubLoneFence(text, i + 1)
  ELSE <<text[i]>> \o SubLoneFence(text, i + 1)

\* pattern.sub('', text) for the k-th of CODE_FENCE_PATTERNS
PatternSub(text, k) ==
  Once(LAMBDA t :
         CASE k = 1 -> SubStartFence(t, 1, "typst", TRUE)
           [] k = 2 -> SubStartFence(t, 1, "latex", TRUE)
           [] k = 3 -> SubStartFence(t, 1, "word", TRUE)
           [] k = 4 -> SubStartFence(t, 1, "none", TRUE)
           [] k = 5 -> SubEndFence(t, 1, TRUE, TRUE)
           [] k = 6 -> SubLoneFence(t, 1),
       text)

\* CODE_FENCE_PATTERNS, applied one after the other
FencePatterns(text) ==
  LET r1 == PatternSub(text, 1)
      r2 == PatternSub(r1, 2)
      r3 == PatternSub(r2, 3)
      r4 == PatternSub(r3, 4)
      r5 == PatternSub(r4, 5)
  IN PatternSub(r5, 6)

\* the entries of changes for the patterns from the k-th on that match
RECURSIVE PatternChanges(_, _)
PatternChanges(text, k) ==
  IF k > 6 THEN <<>>
  ELSE Once(LAMBDA r : (IF r # text THEN <<Ev("fence", k)>> ELSE <<>>)
                       \o PatternChanges(r, k + 1),
            PatternSub(text, k))

\* stripped.startswith('FENCE')
IsFenceLine(line) == LET s == LStrip(line) IN s # <<>> /\ Head(s) = FENCE

\* _remove_code_fences: the patterns, then every line that starts with a fence
RemoveCodeFences(code) ==
  Once(LAMBDA result :
         Join(SelectSeq(Once(Split, result), LAMBDA line : ~IsFenceLine(line))),
       FencePatterns(code))

\* the entries of changes of _remove_code_fences: one for each pattern that
\* matched, then one for each line removed (with its number)
FenceChanges(code) ==
  Once(LAMBDA c : PatternChanges(c, 1), code)
  \o Once(LAMBDA lines :
            SelectSeq([i \in 1..Len(lines) |-> Ev("fenceline", i)],
                      LAMBDA e : IsFenceLine(lines[e.n])),
          Split(FencePatterns(code)))

\* re.sub(r'\n{4,}', '\n\n\n', ...), from position i on
RECURSIVE CollapseBlankLines(_, _)
CollapseBlankLines(text, i) ==
  IF i > Len(text) THEN <<>>
  ELSE IF text[i] # NL THEN <<text[i]>> \o CollapseBlankLines(text, i + 1)
  ELSE LET e == RunEnd(text, i, {NL})
       IN (IF e - i >= 4 THEN <<NL, NL, NL>> ELSE SubSeq(text, i, e - 1))
          \o CollapseBlankLines(text, e)

RECURSIVE RStripLines(_)
RStripLines(lines) ==
  IF lines = <<>> THEN <<>> ELSE <<RStrip(Head(lines))>> \o RStripLines(Tail(lines))

\* _normalize_whitespace
NormalizeWhitespace(code) ==
  Once(LAMBDA result : CollapseBlankLines(result, 1),
       Join(RStripLines(Once(Split, code))))

\* the entries of changes of _normalize_whitespace
WhitespaceChanges(code) ==
  Once(LAMBDA lines :
         (IF RStripLines(lines) # lines THEN <<Ev("rstrip", 0)>> ELSE <<>>)
         \o Once(LAMBDA result :
                   IF CollapseBlankLines(result, 1) # result
                   THEN <<Ev("blank", 0)>> ELSE <<>>,
                 Join(RStripLines(lines))),
       Split(code))

\* the LaTeX control sequences of TYPST_FIXES
Legacy == {"\\frac", "\\sqrt", "\\cdot", "\\times", "\\infty"}

\* [^}]+ from position i: the position of the first closing brace
GroupEnd(text, i) == RunEnd(text, i, {text[k] : k \in 1..Len(text)} \ {"}"})

\* re.sub(r'\\frac\{([^}]+)\}\{([^}]+)\}', r'frac(\1, \2)', ...), from position i on
RECURSIVE SubFrac(_, _)
SubFrac(text, i) ==
  IF i > Len(text) THEN <<>>
  ELSE LET e1 == GroupEnd(text, i + 2)
           e2 == GroupEnd(text, e1 + 2)
       IN IF /\ text[i] = "\\frac" /\ i + 1 <= Len(text) /\ text[i + 1] = "{"
             /\ e1 > i + 2 /\ e1 < Len(text) /\ text[e1 + 1] = "{"
             /\ e2 > e1 + 2 /\ e2 <= Len(text)
          THEN <<"frac", "(">> \o SubSeq(text, i + 2, e1 - 1) \o <<",", SP>>
               \o SubSeq(text, e1 + 2, e2 - 1) \o <<")">> \o SubFrac(text, e2 + 1)
          ELSE <<text[i]>> \o SubFrac(text, i + 1)

\* re.sub(r'\\sqrt\{([^}]+)\}', r'sqrt(\1)', ...), from position i on
RECURSIVE SubSqrt(_, _)
SubSqrt(text, i) ==
  IF i > Len(text) THEN <<>>
  ELSE LET e1 == GroupEnd(text, i + 2)
       IN IF /\ text[i] = "\\sqrt" /\ i + 1 <= Len(text) /\ text[i + 1] = "{"
             /\ e1 > i + 2 /\ e1 <= Len(text)
          THEN <<"sqrt", "(">> \o SubSeq(text, i + 2, e1 - 1) \o <<")">>
               \o SubSqrt(text, e1 + 1)
          ELSE <<text[i]>> \o SubSqrt(text, i + 1)

\* re.sub of one control sequence by its Typst word
SubToken(text, from, to) ==
  [k \in 1..Len(text) |-> IF text[k] = from THEN to ELSE text[k]]

\* re.sub(pattern, replacement, text) for the j-th of TYPST_FIXES
FixSub(text, j) ==
  Once(LAMBDA t :
         CASE j = 1 -> SubFrac(t, 1)
           [] j = 2 -> SubSqrt(t, 1)
           [] j = 3 -> SubToken(t, "\\cdot", "dot")
           [] j = 4 -> SubToken(t, "\\times", "times")
           [] j = 5 -> SubToken(t, "\\infty", "oo"),
       text)

\* _fix_typst, aggressive: the fixes from the j-th on; the text and the
\* entries of changes for the fixes that changed it
RECURSIVE TypstFixes(_, _)
TypstFixes(text, j) ==
  IF j > 5 THEN [text |-> text, changes |-> <<>>]
  ELSE Once(LAMBDA r :
              Once(LAMBDA rest :
                     [text |-> rest.text,
                      changes |-> (IF r # text THEN <<Ev("repair", j)>> ELSE <<>>)
                                  \o rest.changes],
                   TypstFixes(r, j + 1)),
            FixSub(text, j))

\* _fix_typst and _fix_latex: only the aggressive typst fixes change the text
FixFormat(text, format, aggressive) ==
  IF format = "typst" /\ aggressive THEN Once(LAMBDA t : TypstFixes(t, 1), text)
  ELSE [text |-> text, changes |-> <<>>]

\* CodeSanitizer.sanitize(code, format, aggressive)
Sanitize(code, format, aggressive) ==
  Once(LAMBDA r1 :
    Once(LAMBDA r2 :
      Once(LAMBDA fixed :
             [cleaned_code |-> Strip(fixed.text),
              changes_made |-> FenceChanges(code) \o WhitespaceChanges(r1)
                               \o fixed.changes,
              warnings |-> IF format \in {"typst", "latex"}
                           THEN SanitizeWarnings(fixed.text, format) ELSE <<>>],
           FixFormat(r2, format, aggressive)),
      NormalizeWhitespace(r1)),
    RemoveCodeFences(code))

\* strip_markdown_fences of backend/app/core/sanitizers.py
StripMarkdownFences(code) ==
  IF code = <<>> THEN <<>>
  ELSE LET c1 == Once(LAMBDA t : SubStartFence(t, 1, "letters", FALSE), Strip(code))
       IN Strip(Once(LAMBDA t : SubEndFence(t, 1, FALSE, FALSE), c1))

\* ------------------------------------------------------------------ figures of a request
RECURSIVE SeqsUpTo(_, _)
SeqsUpTo(S, n) ==
  IF n = 0 THEN {<<>>}
  ELSE LET shorter == SeqsUpTo(S, n - 1)
       IN shorter \cup {Append(s, x) : s \in shorter, x \in S}

FigureSpecs == [id : FigIds, latex : {"", "tikz"}]

\* figure ids are unique within a request
FigureLists ==
  {s \in SeqsUpTo(FigureSpecs, MaxFigs) :
     \A i, j \in 1..Len(s) : s[i].id = s[j].id => i = j}

\* ------------------------------------------------------------------ disk
\* A file is [dir, name, by]: by names the call (and figure index) whose
\* data the file holds.
SessionDir(id) == <<"compile", id>>
TmpIds == 1..(2 * Cardinality(Calls))
File(d, name, by) == [dir |-> d, name |-> name, by |-> by]
Exists(f, d, name) == \E x \in f.files : x.dir = d /\ x.name = name
Content(f, d, name) == (CHOOSE x \in f.files : x.dir = d /\ x.name = name).by

\* Path.mkdir(parents=True, exist_ok=True)
Mkdir(f, d) == [f EXCEPT !.dirs = @ \cup {d}]

\* write_text / write_bytes; the caller checks that the directory exists
Write(f, d, name, by) ==
  [f EXCEPT !.files = {x \in @ : ~(x.dir = d /\ x.name = name)} \cup {File(d, name, by)}]

\* shutil.rmtree(d, ignore_errors=True)
RmTree(f, d) == [dirs |-> f.dirs \ {d}, files |-> {x \in f.files : x.dir # d}]

\* _cleanup_session
CleanupSession(f, d, k) == IF ~k /\ d \in f.dirs THEN RmTree(f, d) ELSE f

\* tempfile.TemporaryDirectory(): mkdtemp creates a directory that did not exist
FreshTmp(f) ==
  <<"tmp", CHOOSE n \in TmpIds : <<"tmp", n>> \notin f.dirs
                                 /\ \A m \in TmpIds : m < n => <<"tmp", m>> \in f.dirs>>

SRC == <<"document.src", 0>>
PDF == <<"document.pdf", 0>>
FIGDIR == <<"figurer", 0>>
FIGTEX == <<"figure.tex", 0>>
FIGPDF == <<"figure.pdf", 0>>
FIGPNG == <<"figure.png", 0>>
FIGPNG1 == <<"figure-1.png", 0>>
Png(id) == <<"png", id>>

\* ------------------------------------------------------------------ results
Returned(ok, bytes, log, w) ==
  [status |-> "returned", success |-> ok, bytes |-> bytes, log |-> log,
   warnings |-> w, cause |-> "none"]

\* raise CompilationError(message, log=...): the exception has no warnings
Raised(cause, log) ==
  [status |-> "raised", success |-> FALSE, bytes |-> NoBytes, log |-> log,
   warnings |-> <<>>, cause |-> cause]

\* the task was cancelled: CancelledError leaves the coroutine
Cancelled ==
  [status |-> "cancelled", success |-> FALSE, bytes |-> NoBytes, log |-> "none",
   warnings |-> <<>>, cause |-> "cancelled"]

\* png_base64: Optional[str] = None
NoBase64 == <<"none", NoBytes>>

\* base64.b64encode(png_bytes).decode('utf-8')
Base64(png_bytes) == <<"b64", png_bytes>>

\* FigureResult(success=..., log=...): png_bytes and png_base64 keep their defaults
FigureResult(ok, bytes, log) ==
  [success |-> ok, bytes |-> bytes, b64 |-> NoBase64, log |-> log]

\* a success result that forgets png_base64
PngResult_NoBase64(png_bytes) == FigureResult(TRUE, png_bytes, "empty")

\* FigureResult(success=True, png_bytes=png_bytes, png_base64=png_base64, log="")
PngResult(png_bytes) ==
  [FigureResult(TRUE, png_bytes, "empty") EXCEPT !.b64 = Base64(png_bytes)]

Spawned(tool, avail) == [tool |-> tool, st |-> IF avail THEN "running" ELSE "missing"]

\* ------------------------------------------------------------------ state
VARIABLES
  kind,      \* which entry point the call runs ("idle" before it starts)
  pc,        \* position of the coroutine: idle, main, figure, done
  keep,      \* keep_temp_files of the compiler the call runs on
  src,       \* code / typst_code argument
  figs,      \* figures argument
  idx,       \* index of the figure being compiled
  run,       \* compile_latex: index of the current pdflatex run
  sess,      \* session directory of the call
  fsess,     \* session directory of the figure being compiled
  proc,      \* the child process the call awaits
  orphans,   \* child processes of the call still running, no longer awaited
  warnings,  \* the local list warnings
  result,    \* what the call gave back to its caller
  fs,        \* the disk: existing directories and files
  doc,       \* the source text the call wrote for its main engine
  nonzero,   \* history: a run of the main engine of the call exited non-zero
  timedOut,  \* history: a deadline of the call expired
  figres,    \* history: the FigureResults the call has received, in order
  trace,     \* history: the phases of the call, in the order the code ran them
  deps       \* what the last call of check_dependencies returned

vars == <<kind, pc, keep, src, figs, idx, run, sess, fsess, proc, orphans,
          warnings, result, fs, doc, nonzero, timedOut, figres, trace, deps>>

InFlight(c) == pc[c] \in {"main", "figure"}
Done(c) == pc[c] = "done"

\* Everything but the arguments of the calls.
InitRest ==
  /\ kind = [c \in Calls |-> "idle"]
  /\ idx = [c \in Calls |-> 0]
  /\ run = [c \in Calls |-> 0]
  /\ sess = [c \in Calls |-> NoDir]
  /\ fsess = [c \in Calls |-> NoDir]
  /\ proc = [c \in Calls |-> NoProc]
  /\ orphans = [c \in Calls |-> {}]
  /\ warnings = [c \in Calls |-> <<>>]
  /\ result = [c \in Calls |-> NoResult]
  /\ fs = [dirs |-> {}, files |-> {}]
  /\ nonzero = [c \in Calls |-> FALSE]
  /\ timedOut = [c \in Calls |-> FALSE]
  /\ figres = [c \in Calls |-> <<>>]
  /\ doc = [c \in Calls |-> <<>>]
  /\ trace = [c \in Calls |-> <<>>]
  /\ deps = NoReport

\* One call, "A", with any arguments; the other call never starts.  A
\* compiler that keeps its temporary files gets a figure list one shorter.
Init ==
  /\ pc = [c \in Calls |-> IF c = "A" THEN "idle" ELSE "off"]
  /\ keep \in [Calls -> BOOLEAN] /\ keep["B"] = FALSE
  /\ src \in [Calls -> Docs] /\ src["B"] = Doc1
  /\ figs \in [Calls -> FigureLists] /\ figs["B"] = <<>>
  /\ keep["A"] => Len(figs["A"]) < MaxFigs
  /\ InitRest

\* Two calls in flight together, with short figure lists; the second call
\* has no figures and removes its temporary files.
ConcurrentFigureLists == {fl \in FigureLists : Len(fl) <= 1 /\ \A i \in 1..Len(fl) : fl[i].id = 1 /\ fl[i].latex # ""}

InitConcurrent ==
  /\ pc = [c \in Calls |-> "idle"]
  /\ keep \in [Calls -> BOOLEAN] /\ keep["B"] = FALSE
  /\ src = [c \in Calls |-> Doc1]
  /\ figs \in [Calls -> ConcurrentFigureLists] /\ figs["B"] = <<>>
  /\ InitRest

\* ------------------------------------------------------------------ shared steps
\* The operators of this section set pc, idx, fsess, proc, warnings, result,
\* fs, doc and trace; x is the call's frame [c, d, k, code, fl, doc, t]: the
\* call, its session directory, keep_temp_files, the source text, the figure
\* list, the text written for the main engine and the phases run so far.

Frame(c) ==
  [c |-> c, d |-> sess[c], k |-> keep[c], code |-> src[c], fl |-> figs[c],
   doc |-> doc[c], t |-> trace[c]]

Locals(x) ==
  /\ doc' = [doc EXCEPT ![x.c] = x.doc]
  /\ trace' = [trace EXCEPT ![x.c] = x.t]
  /\ UNCHANGED deps

\* leave the coroutine through finally: _cleanup_session(session_dir)
Finish(x, res, f) ==
  /\ pc' = [pc EXCEPT ![x.c] = "done"]
  /\ proc' = [proc EXCEPT ![x.c] = NoProc]
  /\ result' = [result EXCEPT ![x.c] = res]
  /\ fs' = CleanupSession(f, x.d, x.k)
  /\ Locals(x)
  /\ UNCHANGED <<idx, fsess, warnings>>

\* await the child process just started
Await(x, where, p, i, fd, w, f) ==
  /\ pc' = [pc EXCEPT ![x.c] = where]
  /\ proc' = [proc EXCEPT ![x.c] = p]
  /\ idx' = [idx EXCEPT ![x.c] = i]
  /\ fsess' = [fsess EXCEPT ![x.c] = fd]
  /\ warnings' = [warnings EXCEPT ![x.c] = w]
  /\ fs' = f
  /\ Locals(x)
  /\ UNCHANGED result

\* index of the first figure from i on that has LaTeX code
RECURSIVE NextNonEmpty(_, _)
NextNonEmpty(fl, i) ==
  IF i > Len(fl) \/ fl[i].latex # "" THEN i ELSE NextNonEmpty(fl, i + 1)

\* warnings.append(f"Figur {fig_id} har tom LaTeX-kode") for the figures i..j-1
RECURSIVE EmptyWarnings(_, _, _)
EmptyWarnings(fl, i, j) ==
  IF i >= j THEN <<>>
  ELSE <<[t |-> "empty", id |-> fl[i].id]>> \o EmptyWarnings(fl, i + 1, j)

\* compile_hybrid, steps 2 and 3: rewrite the paths, sanitize the rewritten
\* text, write document.typ and start typst
BeginHybridMain(x, w, f) ==
  \E processed_typst \in {RewriteImagePaths(x.code)} :
    \E sanitize_result \in {Sanitize(processed_typst, "typst", FALSE)} :
      LET w2 == w \o sanitize_result.warnings
          t1 == x.t \o <<Ev("rewrite", 0), Ev("sanitize", 0)>>
      IN IF x.d \notin f.dirs
         THEN \* write_text raises FileNotFoundError -> except Exception, finally
              /\ pc' = [pc EXCEPT ![x.c] = "done"]
              /\ proc' = [proc EXCEPT ![x.c] = NoProc]
              /\ result' = [result EXCEPT ![x.c] = Raised("unexpected", "empty")]
              /\ fs' = CleanupSession(f, x.d, x.k)
              /\ warnings' = [warnings EXCEPT ![x.c] = w2]
              /\ Locals([x EXCEPT !.t = t1])
              /\ UNCHANGED <<idx, fsess>>
         ELSE \E avail \in BOOLEAN :
                Await([x EXCEPT !.doc = sanitize_result.cleaned_code,
                                !.t = Append(t1, Ev("main", 0))],
                      "main", Spawned("typst", avail), idx[x.c], fsess[x.c], w2,
                      Write(f, x.d, SRC, [call |-> x.c, n |-> 0]))

\* compile_latex_figure_to_png up to its first await, for figure j
BeginFigure(x, j, w, f) ==
  \E id \in SessionIds, avail \in BOOLEAN :
    LET fd == SessionDir(id)
    IN Await([x EXCEPT !.t = Append(@, Ev("figure", j))], "figure",
             Spawned("pdflatex", avail), j, fd, w,
             Write(Mkdir(f, fd), fd, FIGTEX, [call |-> x.c, n |-> j]))

\* a figure loop that leaves for the main document after the first figure
HybridLoop_OneFigureOnly(x, i, w, f) ==
  LET j == NextNonEmpty(x.fl, i)
      w1 == w \o EmptyWarnings(x.fl, i, j)
  IN IF j <= Len(x.fl) /\ i = 1 THEN BeginFigure(x, j, w1, f)
     ELSE BeginHybridMain(x, w1, f)

\* compile_hybrid, the figure loop from figure i on, up to the next await
HybridLoop(x, i, w, f) ==
  LET j == NextNonEmpty(x.fl, i)
      w1 == w \o EmptyWarnings(x.fl, i, j)
  IN IF j <= Len(x.fl) THEN BeginFigure(x, j, w1, f) ELSE BeginHybridMain(x, w1, f)

\* a figure loop that forgets the warning of a failed figure
HybridAfterFigure_SilentFailure(x, r, f) ==
  LET fig_id == x.fl[idx[x.c]].id
  IN IF ~r.success
     THEN HybridLoop(x, idx[x.c] + 1, warnings[x.c], f)
     ELSE IF x.d \in f.dirs /\ Exists(f, x.d, FIGDIR)
     THEN HybridLoop(x, idx[x.c] + 1, warnings[x.c], Write(f, x.d, Png(fig_id), r.bytes))
     ELSE Finish(x, Raised("unexpected", "empty"), f)

\* compile_hybrid after result = await compile_latex_figure_to_png(...)
HybridAfterFigure(x, r, f) ==
  LET fig_id == x.fl[idx[x.c]].id
  IN IF ~r.success
     THEN HybridLoop(x, idx[x.c] + 1,
                     Append(warnings[x.c], [t |-> "failed", id |-> fig_id]), f)
     ELSE IF x.d \in f.dirs /\ Exists(f, x.d, FIGDIR)
     THEN HybridLoop(x, idx[x.c] + 1, warnings[x.c], Write(f, x.d, Png(fig_id), r.bytes))
     ELSE \* write_bytes raises FileNotFoundError -> except Exception
          Finish(x, Raised("unexpected", "empty"), f)

\* compile_latex_figure_to_png returns r: finally, then back in the caller
FigureReturn(x, r, f) ==
  LET f1 == CleanupSession(f, fsess[x.c], x.k)
      x1 == [x EXCEPT !.t = Append(@, Ev("figend", idx[x.c]))]
  IN IF kind[x.c] = "figure"
     THEN /\ pc' = [pc EXCEPT ![x.c] = "done"]
          /\ proc' = [proc EXCEPT ![x.c] = NoProc]
          /\ result' = [result EXCEPT ![x.c] = Returned(r.success, r.bytes, r.log, <<>>)]
          /\ fs' = f1
          /\ Locals(x1)
          /\ UNCHANGED <<idx, fsess, warnings>>
     ELSE HybridAfterFigure(x1, r, f1)

\* ------------------------------------------------------------------ matultimate-backend
StartTypst(c) ==
  /\ pc[c] = "idle"
  /\ \E id \in SessionIds, avail \in BOOLEAN :
       LET d == SessionDir(id)
       IN /\ kind' = [kind EXCEPT ![c] = "typst"]
          /\ sess' = [sess EXCEPT ![c] = d]
          /\ \E sanitize_result \in {Sanitize(src[c], "typst", FALSE)} :
                Await([Frame(c) EXCEPT !.doc = sanitize_result.cleaned_code],
                      "main", Spawned("typst", avail), 0, NoDir,
                      sanitize_result.warnings,
                      Write(Mkdir(fs, d), d, SRC, [call |-> c, n |-> 0]))
  /\ UNCHANGED <<keep, src, figs, run, orphans, nonzero, timedOut, figres>>

\* the code after await wait_for(process.communicate()) in compile_typst and
\* in compile_hybrid
TypstOutcome(x) ==
  LET p == proc[x.c]
  IN IF p.st = "missing" THEN Finish(x, Raised("missing", "empty"), fs)
     ELSE IF p.st = "exit1" THEN Finish(x, Raised("exit", "output"), fs)
     ELSE IF ~Exists(fs, x.d, PDF) THEN Finish(x, Raised("nopdf", "output"), fs)
     ELSE Finish(x, Returned(TRUE, Content(fs, x.d, PDF), "output", warnings[x.c]), fs)

ResumeTypst(c) ==
  /\ kind[c] = "typst" /\ pc[c] = "main"
  /\ proc[c].st \in {"missing", "exit0", "exit1"}
  /\ TypstOutcome(Frame(c))
  /\ nonzero' = [nonzero EXCEPT ![c] = @ \/ proc[c].st = "exit1"]
  /\ UNCHANGED <<kind, keep, src, figs, run, sess, orphans, timedOut, figres>>

\* except asyncio.TimeoutError: process.kill(); raise CompilationError(...)
TimeoutTypst(c) ==
  /\ kind[c] = "typst" /\ pc[c] = "main"
  /\ proc[c].st = "running"
  /\ Finish(Frame(c), Raised("timeout", "empty"), fs)
  /\ timedOut' = [timedOut EXCEPT ![c] = TRUE]
  /\ UNCHANGED <<kind, keep, src, figs, run, sess, orphans, nonzero, figres>>

StartHybrid(c) ==
  /\ pc[c] = "idle"
  /\ \E id \in SessionIds :
       LET d == SessionDir(id)
           x == [Frame(c) EXCEPT !.d = d]
           f1 == Mkdir(fs, d)
       IN /\ kind' = [kind EXCEPT ![c] = "hybrid"]
          /\ sess' = [sess EXCEPT ![c] = d]
          /\ IF Exists(f1, d, FIGDIR)
             THEN \* figures_dir.mkdir() raises FileExistsError before the try
                  /\ pc' = [pc EXCEPT ![c] = "done"]
                  /\ result' = [result EXCEPT ![c] = Raised("unexpected", "empty")]
                  /\ fs' = f1
                  /\ UNCHANGED <<idx, fsess, proc, warnings, doc, trace, deps>>
             ELSE HybridLoop(x, 1, <<>>, Write(f1, d, FIGDIR, [call |-> c, n |-> 0]))
  /\ UNCHANGED <<keep, src, figs, run, orphans, nonzero, timedOut, figres>>

ResumeHybridMain(c) ==
  /\ kind[c] = "hybrid" /\ pc[c] = "main"
  /\ proc[c].st \in {"missing", "exit0", "exit1"}
  /\ TypstOutcome(Frame(c))
  /\ nonzero' = [nonzero EXCEPT ![c] = @ \/ proc[c].st = "exit1"]
  /\ UNCHANGED <<kind, keep, src, figs, run, sess, orphans, timedOut, figres>>

TimeoutHybridMain(c) ==
  /\ kind[c] = "hybrid" /\ pc[c] = "main"
  /\ proc[c].st = "running"
  /\ Finish(Frame(c), Raised("timeout", "empty"), fs)
  /\ timedOut' = [timedOut EXCEPT ![c] = TRUE]
  /\ UNCHANGED <<kind, keep, src, figs, run, sess, orphans, nonzero, figres>>

StartLatex(c) ==
  /\ pc[c] = "idle"
  /\ \E id \in SessionIds, avail \in BOOLEAN :
       LET d == SessionDir(id)
       IN /\ kind' = [kind EXCEPT ![c] = "latex"]
          /\ sess' = [sess EXCEPT ![c] = d]
          /\ \E sanitize_result \in {Sanitize(src[c], "latex", FALSE)} :
                Await([Frame(c) EXCEPT !.doc = sanitize_result.cleaned_code],
                      "main", Spawned("pdflatex", avail), 0, NoDir,
                      sanitize_result.warnings,
                      Write(Mkdir(fs, d), d, SRC, [call |-> c, n |-> 0]))
  /\ run' = [run EXCEPT ![c] = 0]
  /\ UNCHANGED <<keep, src, figs, orphans, nonzero, timedOut, figres>>

\* "Sjekk for fatale feil": the exit code is looked at in the first run only
FatalExit(st, r) == st = "exit1" /\ r = 0

\* compile_latex after a pdflatex run has ended
ResumeLatex(c) ==
  LET x == Frame(c)
      p == proc[c]
  IN /\ kind[c] = "latex" /\ pc[c] = "main"
     /\ p.st \in {"missing", "exit0", "exit1"}
     /\ nonzero' = [nonzero EXCEPT ![c] = @ \/ p.st = "exit1"]
     /\ IF p.st = "missing"
        THEN Finish(x, Raised("missing", "empty"), fs) /\ UNCHANGED run
        ELSE IF FatalExit(p.st, run[c])
        THEN Finish(x, Raised("exit", "output"), fs) /\ UNCHANGED run
        ELSE IF run[c] + 1 < Runs
        THEN /\ \E avail \in BOOLEAN :
                  Await(x, "main", Spawned("pdflatex", avail), 0, NoDir, warnings[c], fs)
             /\ run' = [run EXCEPT ![c] = @ + 1]
        ELSE IF ~Exists(fs, x.d, PDF)
        THEN Finish(x, Raised("nopdf", "output"), fs) /\ UNCHANGED run
        ELSE /\ Finish(x, Returned(TRUE, Content(fs, x.d, PDF), "output", warnings[c]), fs)
             /\ UNCHANGED run
     /\ UNCHANGED <<kind, keep, src, figs, sess, orphans, timedOut, figres>>

TimeoutLatex(c) ==
  /\ kind[c] = "latex" /\ pc[c] = "main"
  /\ proc[c].st = "running"
  /\ Finish(Frame(c), Raised("timeout", "empty"), fs)
  /\ timedOut' = [timedOut EXCEPT ![c] = TRUE]
  /\ UNCHANGED <<kind, keep, src, figs, run, sess, orphans, nonzero, figres>>

\* compile_latex_figure_to_png called directly
StartFigure(c) ==
  /\ pc[c] = "idle"
  /\ kind' = [kind EXCEPT ![c] = "figure"]
  /\ BeginFigure(Frame(c), 0, <<>>, fs)
  /\ UNCHANGED <<keep, src, figs, run, sess, orphans, nonzero, timedOut, figres>>

InFigure(c, tool) ==
  /\ kind[c] \in {"figure", "hybrid"} /\ pc[c] = "figure"
  /\ proc[c].tool = tool

\* no FigureResult yet: the figure goes on to the next tool
Pending == FigureResult(FALSE, NoBytes, "pending")

\* after the pdflatex run of a figure: only the PDF file is looked at
AfterFigureLatex(f, d, st) ==
  IF st = "missing" THEN FigureResult(FALSE, NoBytes, "text")
  ELSE IF ~Exists(f, d, FIGPDF) THEN FigureResult(FALSE, NoBytes, "output")
  ELSE Pending

\* after pdftoppm: possible_names = [figure.png, figure-1.png]
AfterFigurePpm(f, d, st) ==
  IF st = "missing" THEN FigureResult(FALSE, NoBytes, "text")
  ELSE IF Exists(f, d, FIGPNG) THEN PngResult(Content(f, d, FIGPNG))
  ELSE IF Exists(f, d, FIGPNG1) THEN PngResult(Content(f, d, FIGPNG1))
  ELSE Pending

\* after the fallback ImageMagick convert
AfterFigureConvert(f, d, st) ==
  IF st = "missing" THEN FigureResult(FALSE, NoBytes, "text")
  ELSE IF Exists(f, d, FIGPNG) THEN PngResult(Content(f, d, FIGPNG))
  ELSE FigureResult(FALSE, NoBytes, "text")

\* the FigureResult the call receives for figure idx[c]; expired: the deadline
\* of pdflatex ran out (the result is made while the process still runs)
Record(c, r) ==
  figres' = [figres EXCEPT ![c] =
               Append(@, [n |-> idx[c], success |-> r.success, bytes |-> r.bytes,
                          b64 |-> r.b64, log |-> r.log,
                          expired |-> proc[c].st = "running"])]

\* return r, or start the next tool of the figure and await it
FigureStep(c, r, tool) ==
  IF r = Pending
  THEN /\ \E avail \in BOOLEAN :
            Await(Frame(c), "figure", Spawned(tool, avail), idx[c], fsess[c],
                  warnings[c], fs)
       /\ UNCHANGED figres
  ELSE FigureReturn(Frame(c), r, fs) /\ Record(c, r)

ResumeFigureLatex(c) ==
  /\ InFigure(c, "pdflatex")
  /\ proc[c].st \in {"missing", "exit0", "exit1"}
  /\ FigureStep(c, AfterFigureLatex(fs, fsess[c], proc[c].st), "pdftoppm")
  /\ nonzero' = [nonzero EXCEPT ![c] = @ \/ (kind[c] = "figure" /\ proc[c].st = "exit1")]
  /\ UNCHANGED <<kind, keep, src, figs, run, sess, orphans, timedOut>>

\* a timeout branch that returns the failure without a log
TimeoutFigureLatex_NoLog(c) ==
  /\ InFigure(c, "pdflatex")
  /\ proc[c].st = "running"
  /\ FigureStep(c, FigureResult(FALSE, NoBytes, "empty"), "none")
  /\ timedOut' = [timedOut EXCEPT ![c] = TRUE]
  /\ UNCHANGED <<kind, keep, src, figs, run, sess, orphans, nonzero>>

\* except asyncio.TimeoutError: process.kill(); return FigureResult(success=False,
\* log="Figur-kompilering tok mer enn {timeout} sekunder")
TimeoutFigureLatex(c) ==
  /\ InFigure(c, "pdflatex")
  /\ proc[c].st = "running"
  /\ FigureStep(c, FigureResult(FALSE, NoBytes, "timeout"), "none")
  /\ timedOut' = [timedOut EXCEPT ![c] = TRUE]
  /\ UNCHANGED <<kind, keep, src, figs, run, sess, orphans, nonzero>>

\* after await convert_process.communicate() of pdftoppm (no deadline)
ResumeFigurePpm(c) ==
  /\ InFigure(c, "pdftoppm")
  /\ proc[c].st \in {"missing", "exit0", "exit1"}
  /\ FigureStep(c, AfterFigurePpm(fs, fsess[c], proc[c].st), "convert")
  /\ UNCHANGED <<kind, keep, src, figs, run, sess, orphans, nonzero, timedOut>>

\* after await convert_process.communicate() of ImageMagick convert (no deadline)
ResumeFigureConvert(c) ==
  /\ InFigure(c, "convert")
  /\ proc[c].st \in {"missing", "exit0", "exit1"}
  /\ FigureStep(c, AfterFigureConvert(fs, fsess[c], proc[c].st), "none")
  /\ UNCHANGED <<kind, keep, src, figs, run, sess, orphans, nonzero, timedOut>>

\* ------------------------------------------------------------------ external tools
\* where a tool of call c reads and writes: <<directory, input, outputs>>
ToolFiles(c) ==
  LET t == proc[c].tool
  IN IF t = "typst" THEN <<sess[c], SRC, {PDF}>>
     ELSE IF t = "pdflatex" /\ pc[c] = "main" THEN <<sess[c], SRC, {PDF}>>
     ELSE IF t = "pdflatex" THEN <<fsess[c], FIGTEX, {FIGPDF}>>
     ELSE IF t = "pdftoppm" THEN <<fsess[c], FIGPDF, {FIGPNG, FIGPNG1}>>
     ELSE <<fsess[c], FIGPDF, {FIGPNG}>>

\* a running child process exits with code rc; it may have written its output
ProcExit(c) ==
  /\ proc[c].st = "running"
  /\ LET tf == ToolFiles(c)
         d == tf[1]
         readable == d \in fs.dirs /\ Exists(fs, d, tf[2])
     IN \E rc \in {0, 1} :
          /\ proc' = [proc EXCEPT ![c].st = IF rc = 0 THEN "exit0" ELSE "exit1"]
          /\ \/ fs' = fs
             \/ /\ readable
                /\ \E out \in tf[3] : fs' = Write(fs, d, out, Content(fs, d, tf[2]))
  /\ UNCHANGED <<kind, pc, keep, src, figs, idx, run, sess, fsess, orphans,
                 warnings, result, doc, nonzero, timedOut, figres, trace, deps>>

\* ------------------------------------------------------------------ backend (second snapshot)
\* the with-block of tempfile.TemporaryDirectory ends: the directory is removed
BFinish(x, res, f) ==
  /\ pc' = [pc EXCEPT ![x.c] = "done"]
  /\ proc' = [proc EXCEPT ![x.c] = NoProc]
  /\ result' = [result EXCEPT ![x.c] = res]
  /\ fs' = RmTree(f, x.d)
  /\ Locals(x)
  /\ UNCHANGED <<idx, fsess, warnings>>

\* compile_latex_figure_to_png up to its first await, for figure j
BBeginFigure(x, j, w, f) ==
  \E avail \in BOOLEAN :
    LET fd == FreshTmp(f)
    IN Await([x EXCEPT !.t = Append(@, Ev("figure", j))], "figure",
             Spawned("pdflatex", avail), j, fd, w,
             Write(Mkdir(f, fd), fd, FIGTEX, [call |-> x.c, n |-> j]))

\* compile_hybrid: write document.typ (as given) and start typst
BBeginHybridMain(x, w, f) ==
  \E avail \in BOOLEAN :
    Await([x EXCEPT !.doc = x.code, !.t = Append(@, Ev("main", 0))], "main",
          Spawned("typst", avail), idx[x.c], fsess[x.c], w,
          Write(f, x.d, SRC, [call |-> x.c, n |-> 0]))

\* compile_hybrid: the figure loop from figure i on
BHybridLoop(x, i, w, f) ==
  IF i <= Len(x.fl) THEN BBeginFigure(x, i, w, f) ELSE BBeginHybridMain(x, w, f)

BHybridAfterFigure(x, r, f) ==
  LET fig_id == x.fl[idx[x.c]].id
  IN IF r.success
     THEN BHybridLoop(x, idx[x.c] + 1, warnings[x.c], Write(f, x.d, Png(fig_id), r.bytes))
     ELSE BHybridLoop(x, idx[x.c] + 1,
                      Append(warnings[x.c], [t |-> "failed", id |-> fig_id]), f)

BFigureReturn(x, r, f) ==
  LET f1 == RmTree(f, fsess[x.c])
      x1 == [x EXCEPT !.t = Append(@, Ev("figend", idx[x.c]))]
  IN IF kind[x.c] = "bfigure"
     THEN /\ pc' = [pc EXCEPT ![x.c] = "done"]
          /\ proc' = [proc EXCEPT ![x.c] = NoProc]
          /\ result' = [result EXCEPT ![x.c] = Returned(r.success, r.bytes, r.log, <<>>)]
          /\ fs' = f1
          /\ Locals(x1)
          /\ UNCHANGED <<idx, fsess, warnings>>
     ELSE BHybridAfterFigure(x1, r, f1)

StartBFigure(c) ==
  /\ pc[c] = "idle"
  /\ kind' = [kind EXCEPT ![c] = "bfigure"]
  /\ BBeginFigure(Frame(c), 0, <<>>, fs)
  /\ UNCHANGED <<keep, src, figs, run, sess, orphans, nonzero, timedOut, figres>>

StartBHybrid(c) ==
  /\ pc[c] = "idle"
  /\ LET d == FreshTmp(fs)
         x == [Frame(c) EXCEPT !.d = d]
     IN /\ kind' = [kind EXCEPT ![c] = "bhybrid"]
        /\ sess' = [sess EXCEPT ![c] = d]
        /\ BHybridLoop(x, 1, <<>>, Write(Mkdir(fs, d), d, FIGDIR, [call |-> c, n |-> 0]))
  /\ UNCHANGED <<keep, src, figs, run, orphans, nonzero, timedOut, figres>>

InBFigure(c, tool) ==
  /\ kind[c] \in BKKinds /\ pc[c] = "figure"
  /\ proc[c].tool = tool

\* after the pdflatex run of a figure
AfterBFigureLatex(f, d, st) ==
  IF st = "missing" THEN FigureResult(FALSE, NoBytes, "text")
  ELSE IF st = "exit1" THEN FigureResult(FALSE, NoBytes, "text")
  ELSE IF ~Exists(f, d, FIGPDF) THEN FigureResult(FALSE, NoBytes, "text")
  ELSE Pending

\* after pdftoppm: figure.png, else figure-1.png
AfterBFigurePpm(f, d, st) ==
  IF st = "missing" THEN FigureResult(FALSE, NoBytes, "text")
  ELSE IF Exists(f, d, FIGPNG) THEN PngResult(Content(f, d, FIGPNG))
  ELSE IF Exists(f, d, FIGPNG1) THEN PngResult(Content(f, d, FIGPNG1))
  ELSE FigureResult(FALSE, NoBytes, "text")

BFigureStep(c, r, tool) ==
  IF r = Pending
  THEN /\ \E avail \in BOOLEAN :
            Await(Frame(c), "figure", Spawned(tool, avail), idx[c], fsess[c],
                  warnings[c], fs)
       /\ UNCHANGED figres
  ELSE BFigureReturn(Frame(c), r, fs) /\ Record(c, r)

ResumeBFigureLatex(c) ==
  /\ InBFigure(c, "pdflatex")
  /\ proc[c].st \in {"missing", "exit0", "exit1"}
  /\ BFigureStep(c, AfterBFigureLatex(fs, fsess[c], proc[c].st), "pdftoppm")
  /\ nonzero' = [nonzero EXCEPT ![c] = @ \/ (kind[c] = "bfigure" /\ proc[c].st = "exit1")]
  /\ UNCHANGED <<kind, keep, src, figs, run, sess, orphans, timedOut>>

ResumeBFigurePpm(c) ==
  /\ InBFigure(c, "pdftoppm")
  /\ proc[c].st \in {"missing", "exit0", "exit1"}
  /\ BFigureStep(c, AfterBFigurePpm(fs, fsess[c], proc[c].st), "none")
  /\ UNCHANGED <<kind, keep, src, figs, run, sess, orphans, nonzero, timedOut>>

\* except asyncio.TimeoutError: return FigureResult(success=False, ...); the
\* child process is neither killed nor waited for
TimeoutBFigure(c) ==
  /\ kind[c] \in BKKinds /\ pc[c] = "figure"
  /\ proc[c].st = "running"
  /\ BFigureStep(c, FigureResult(FALSE, NoBytes, "text"), "none")
  /\ orphans' = [orphans EXCEPT ![c] = @ \cup {proc[c].tool}]
  /\ timedOut' = [timedOut EXCEPT ![c] = TRUE]
  /\ UNCHANGED <<kind, keep, src, figs, run, sess, nonzero>>

\* compile_hybrid after the typst run: success is decided by the PDF file alone
ResumeBHybridMain(c) ==
  LET x == Frame(c)
  IN /\ kind[c] = "bhybrid" /\ pc[c] = "main"
     /\ proc[c].st \in {"missing", "exit0", "exit1"}
     /\ nonzero' = [nonzero EXCEPT ![c] = @ \/ proc[c].st = "exit1"]
     /\ IF proc[c].st = "missing"
        THEN BFinish(x, Returned(FALSE, NoBytes, "text", warnings[c]), fs)
        ELSE IF Exists(fs, x.d, PDF)
        THEN BFinish(x, Returned(TRUE, Content(fs, x.d, PDF), "empty", warnings[c]), fs)
        ELSE BFinish(x, Returned(FALSE, NoBytes, "text", warnings[c]), fs)
     /\ UNCHANGED <<kind, keep, src, figs, run, sess, orphans, timedOut, figres>>

\* wait_for(..., timeout=30) raises TimeoutError: except Exception as e:
\* return CompilationResult(success=False, log=str(e), ...); str(e) is empty
TimeoutBHybridMain(c) ==
  /\ kind[c] = "bhybrid" /\ pc[c] = "main"
  /\ proc[c].st = "running"
  /\ BFinish(Frame(c), Returned(FALSE, NoBytes, "empty", warnings[c]), fs)
  /\ orphans' = [orphans EXCEPT ![c] = @ \cup {proc[c].tool}]
  /\ timedOut' = [timedOut EXCEPT ![c] = TRUE]
  /\ UNCHANGED <<kind, keep, src, figs, run, sess, nonzero, figres>>

\* a child process that nobody waits for any more exits
OrphanExit(c) ==
  /\ \E t \in orphans[c] : orphans' = [orphans EXCEPT ![c] = @ \ {t}]
  /\ UNCHANGED <<kind, pc, keep, src, figs, idx, run, sess, fsess, proc,
                 warnings, result, fs, doc, nonzero, timedOut, figres, trace, deps>>

\* ------------------------------------------------------------------ cancellation
\* The caller cancels the task of the call while it awaits a child process:
\* CancelledError is raised at the await.  No except clause of the compile
\* functions catches it; the finally blocks (the with blocks of the second
\* snapshot) remove the directories; nothing ends the child process.
Cancel(c) ==
  LET fd == IF pc[c] = "figure" THEN fsess[c] ELSE NoDir
  IN /\ InFlight(c)
     /\ proc[c].st \in {"running", "exit0", "exit1"}
     /\ pc' = [pc EXCEPT ![c] = "done"]
     /\ proc' = [proc EXCEPT ![c] = NoProc]
     /\ result' = [result EXCEPT ![c] = Cancelled]
     /\ orphans' = [orphans EXCEPT ![c] =
                      IF proc[c].st = "running" THEN @ \cup {proc[c].tool} ELSE @]
     /\ fs' = IF kind[c] \in MBKinds
              THEN CleanupSession(CleanupSession(fs, fd, keep[c]), sess[c], keep[c])
              ELSE RmTree(RmTree(fs, fd), sess[c])
     /\ UNCHANGED <<kind, keep, src, figs, idx, run, sess, fsess, warnings, doc,
                    nonzero, timedOut, figres, trace, deps>>

\* ------------------------------------------------------------------ specification
Next ==
  \E c \in Calls :
    \/ StartTypst(c) \/ ResumeTypst(c) \/ TimeoutTypst(c)
    \/ StartLatex(c) \/ ResumeLatex(c) \/ TimeoutLatex(c)
    \/ StartFigure(c) \/ ResumeFigureLatex(c) \/ TimeoutFigureLatex(c)
    \/ ResumeFigurePpm(c) \/ ResumeFigureConvert(c)
    \/ StartHybrid(c) \/ ResumeHybridMain(c) \/ TimeoutHybridMain(c)
    \/ StartBFigure(c) \/ ResumeBFigureLatex(c) \/ ResumeBFigurePpm(c)
    \/ TimeoutBFigure(c)
    \/ StartBHybrid(c) \/ ResumeBHybridMain(c) \/ TimeoutBHybridMain(c)
    \/ ProcExit(c) \/ OrphanExit(c)

Spec == Init /\ [][Next]_vars

Concurrent == InitConcurrent /\ [][Next]_vars

\* The event loop resumes a coroutine whose child process has ended and fires
\* the timer of asyncio.wait_for; nothing makes a child process end.
Step(c) ==
  \/ ResumeTypst(c) \/ TimeoutTypst(c)
  \/ ResumeLatex(c) \/ TimeoutLatex(c)
  \/ ResumeFigureLatex(c) \/ TimeoutFigureLatex(c)
  \/ ResumeFigurePpm(c) \/ ResumeFigureConvert(c)
  \/ ResumeHybridMain(c) \/ TimeoutHybridMain(c)
  \/ ResumeBFigureLatex(c) \/ ResumeBFigurePpm(c) \/ TimeoutBFigure(c)
  \/ ResumeBHybridMain(c) \/ TimeoutBHybridMain(c)

FairSpec == Init /\ [][Next]_vars /\ \A c \in Calls : WF_vars(Step(c))

\* ------------------------------------------------------------------ check_dependencies
DepTools == {"typst", "pdflatex", "pdftoppm"}

\* what subprocess.run of a tool does: it ends with code 0, with another
\* code, or raises (FileNotFoundError, PermissionError, TimeoutExpired)
Outcomes == {"exit0", "exit1", "raise"}

\* the entry of one tool
CheckTool(tool, o) ==
  IF o = "raise" THEN [installed |-> FALSE, version |-> "absent", error |-> "text"]
  ELSE IF tool = "pdftoppm"
  THEN [installed |-> TRUE, version |-> "text", error |-> "absent"]
  ELSE [installed |-> o = "exit0", version |-> IF o = "exit0" THEN "text" ELSE "none",
        error |-> "absent"]

\* a check whose pdftoppm run is not inside a try
CheckDependencies_Unguarded ==
  /\ \E o \in [DepTools -> Outcomes] :
       deps' = IF o["pdftoppm"] = "raise"
               THEN [status |-> "raised", ran |-> o,
                     results |-> [t \in DepTools \ {"pdftoppm"} |-> CheckTool(t, o[t])]]
               ELSE [status |-> "returned", ran |-> o,
                     results |-> [t \in DepTools |-> CheckTool(t, o[t])]]
  /\ UNCHANGED <<kind, pc, keep, src, figs, idx, run, sess, fsess, proc, orphans,
                 warnings, result, fs, doc, nonzero, timedOut, figres, trace>>

\* DocumentCompiler.check_dependencies: a synchronous method, it runs between
\* any two steps of the compile calls
CheckDependencies ==
  /\ \E o \in [DepTools -> Outcomes] :
       deps' = [status |-> "returned", ran |-> o,
                results |-> [t \in DepTools |-> CheckTool(t, o[t])]]
  /\ UNCHANGED <<kind, pc, keep, src, figs, idx, run, sess, fsess, proc, orphans,
                 warnings, result, fs, doc, nonzero, timedOut, figres, trace>>

\* One call without figures, and the dependency check at any time.
DepsInit == Init /\ figs["A"] = <<>>

DepsNext == Next \/ CheckDependencies

DepsSpec == DepsInit /\ [][DepsNext]_vars

\* The same calls under a caller that may cancel them.
CancelNext == Next \/ \E c \in Calls : Cancel(c)

CancelSpec == Init /\ [][CancelNext]_vars

\* ------------------------------------------------------------------ the sanitizers alone
\* A caller hands a text to CodeSanitizer.sanitize or to strip_markdown_fences
\* and hands the result to the same function once more.
Alphabet == {FENCE, "typst", "latex", "a", "3", NL, SP}
Texts == SeqsUpTo(Alphabet, MaxLen)

\* language tags: identifiers, and the empty tag
Tags == {t \in SeqsUpTo(Word \cap Alphabet, MaxTag) : t = <<>> \/ t[1] \in Letters}

\* bodies without a fence that no whitespace pass changes
Bodies ==
  {b \in SeqsUpTo(Alphabet \ {FENCE}, MaxBody) :
     NormalizeWhitespace(b) = b /\ Strip(b) = b}

\* the body inside a fenced block, with or without the closing fence
Fenced(lang, body, closed) ==
  <<FENCE>> \o lang \o <<NL>> \o body \o (IF closed THEN <<NL, FENCE>> ELSE <<>>)

FencedTexts == {Fenced(lang, body, closed) : lang \in Tags, body \in Bodies, closed \in BOOLEAN}

\* texts with a LaTeX control sequence or a bracket, after some text and
\* before a blank
LegacyForms ==
  {<<"\\cdot">>, <<"\\times">>, <<"\\infty">>, <<"\\sqrt", "{", "a", "}">>,
   <<"\\frac", "{", "a", "}", "{", "a", "}">>,
   <<"\\frac", "{", "a", "}", "{", NL, "a", "}">>,
   <<"(">>, <<"[">>, <<"{">>, <<"(", ")">>}

LegacyTexts ==
  {pre \o form \o post :
     pre \in {<<>>, <<"a", SP, NL>>}, form \in LegacyForms, post \in {<<>>, <<SP>>}}

\* bodies whose middle line starts with a fence
InnerBodies ==
  {<<"a", NL>> \o mid \o <<NL, "a">> : mid \in {<<FENCE>>, <<FENCE, "a">>, <<FENCE, "typst">>}}

\* the tags that CODE_FENCE_PATTERNS names, and the empty tag
PlainTags == {<<>>, <<"typst">>, <<"latex">>}

NestedTexts ==
  InnerBodies
  \cup {Fenced(lang, body, closed) :
          lang \in PlainTags, body \in InnerBodies, closed \in BOOLEAN}

Applications == 2
SanKind == [typst |-> "sanitize_typst", latex |-> "sanitize_latex"]
SanKinds == {SanKind[format] : format \in DOMAIN SanKind}
AggressiveKind == [typst |-> "repair_typst", latex |-> "repair_latex"]
AggressiveKinds == {AggressiveKind[format] : format \in DOMAIN AggressiveKind}

SanInit ==
  /\ pc = [c \in Calls |-> IF c = "A" THEN "text" ELSE "off"]
  /\ keep = [c \in Calls |-> FALSE]
  /\ src \in [Calls -> Texts \cup FencedTexts \cup LegacyTexts \cup NestedTexts]
  /\ src["B"] = <<>>
  /\ figs = [c \in Calls |-> <<>>]
  /\ InitRest

\* the text the next application works on
Current(c) == IF pc[c] = "text" THEN src[c] ELSE doc[c]

\* the caller keeps the result of the call as its text
Applied(c, k, cleaned, w, changes) ==
  /\ kind' = [kind EXCEPT ![c] = k]
  /\ pc' = [pc EXCEPT ![c] = "cleaned"]
  /\ idx' = [idx EXCEPT ![c] = @ + 1]
  /\ doc' = [doc EXCEPT ![c] = cleaned]
  /\ warnings' = [warnings EXCEPT ![c] = w]
  /\ trace' = [trace EXCEPT ![c] = changes]
  /\ UNCHANGED <<keep, src, figs, run, sess, fsess, proc, orphans, result, fs,
                 nonzero, timedOut, figres, deps>>

\* sanitize_result = self.sanitizer.sanitize(code, format)
SanitizeText(c) ==
  /\ pc[c] \in {"text", "cleaned"}
  /\ idx[c] < Applications
  /\ \E format \in DOMAIN SanKind :
       /\ kind[c] \in {"idle", SanKind[format]}
       /\ \E sanitize_result \in {Sanitize(Current(c), format, FALSE)} :
            Applied(c, SanKind[format], sanitize_result.cleaned_code,
                    sanitize_result.warnings, sanitize_result.changes_made)

\* sanitize(code, format, aggressive=True)
SanitizeAggressive(c) ==
  /\ pc[c] \in {"text", "cleaned"}
  /\ idx[c] < Applications
  /\ \E format \in DOMAIN AggressiveKind :
       /\ kind[c] \in {"idle", AggressiveKind[format]}
       /\ \E sanitize_result \in {Sanitize(Current(c), format, TRUE)} :
            Applied(c, AggressiveKind[format], sanitize_result.cleaned_code,
                    sanitize_result.warnings, sanitize_result.changes_made)

\* strip_markdown_fences(code)
StripText(c) ==
  /\ pc[c] \in {"text", "cleaned"}
  /\ idx[c] < Applications
  /\ kind[c] \in {"idle", "strip"}
  /\ Applied(c, "strip", StripMarkdownFences(Current(c)), <<>>, <<>>)

SanNext == \E c \in Calls : SanitizeText(c) \/ SanitizeAggressive(c) \/ StripText(c)

SanSpec == SanInit /\ [][SanNext]_vars

\* ------------------------------------------------------------------ HybridCompiler
\* src/backend/app/core/hybrid_compiler.py: the working directory is sess,
\* figs holds the figures (latex_code), idx the figure being compiled (from 1)

\* main_document: texts that name images, with and without their directory
HDocs == {<<"x">>, <<"fig_0.png">>, <<"figures/", "fig_0.png", "x", "fig_1.png">>}

HFigures == SeqsUpTo([latex_code : {"", "tikz"}], MaxFigs)

\* f"fig_{i}.png"
FigName(i) == "fig_" \o ToString(i) \o ".png"

\* str.replace(name, "figures/" + name)
RECURSIVE ReplaceName(_, _)
ReplaceName(text, name) ==
  IF text = <<>> THEN <<>>
  ELSE (IF Head(text) = name THEN <<"figures/", name>> ELSE <<Head(text)>>)
       \o ReplaceName(Tail(text), name)

\* the loop over figure_paths: fig_0.png, ..., fig_{n-1}.png in turn
RECURSIVE ReplacePlaceholders(_, _)
ReplacePlaceholders(text, n) ==
  IF n = 0 THEN text
  ELSE ReplaceName(ReplacePlaceholders(text, n - 1), FigName(n - 1))

\* Path(f"tmp/matultimate_{uuid.uuid4()}"): a directory that is not on the disk
WorkDir(f) ==
  <<"matultimate", CHOOSE n \in 1..Cardinality(Calls) :
                     /\ <<"matultimate", n>> \notin f.dirs
                     /\ \A m \in 1..(n - 1) : <<"matultimate", m>> \in f.dirs>>

\* asyncio.create_subprocess_exec(tool, ...) and await process.wait(); a tool
\* that is not installed makes it raise FileNotFoundError, which leaves
\* compile_hybrid
HSpawn(c, where, tool, i, f, text) ==
  /\ \E avail \in BOOLEAN :
       /\ pc' = [pc EXCEPT ![c] = IF avail THEN where ELSE "done"]
       /\ proc' = [proc EXCEPT ![c] =
                     IF avail THEN [tool |-> tool, st |-> "running"] ELSE NoProc]
       /\ result' = [result EXCEPT ![c] =
                       IF avail THEN @ ELSE Raised("unexpected", "empty")]
  /\ idx' = [idx EXCEPT ![c] = i]
  /\ fs' = f
  /\ doc' = [doc EXCEPT ![c] = text]
  /\ UNCHANGED <<keep, src, figs, run, fsess, orphans, warnings, nonzero,
                 timedOut, figres, trace, deps>>

\* compile_hybrid from figure i on, up to the next await: write
\* figures/fig_{i}.tex and start pdflatex, or, after the last figure, replace
\* the placeholders, write main.typ and start typst
HybridCompilerLoop(c, d, i, f) ==
  IF i <= Len(figs[c])
  THEN HSpawn(c, "figure", "pdflatex", i,
              Write(f, d, <<"fig.tex", i - 1>>, [call |-> c, n |-> i]), doc[c])
  ELSE \E final_typst \in {ReplacePlaceholders(src[c], Len(figs[c]))} :
         HSpawn(c, "main", "typst", idx[c],
                Write(f, d, <<"main.typ", 0>>, [call |-> c, n |-> 0]), final_typst)

\* HybridCompiler.compile_hybrid up to its first await
StartHybridCompiler(c) ==
  /\ pc[c] = "idle"
  /\ kind' = [kind EXCEPT ![c] = "hybridcompiler"]
  /\ \E work_dir \in {WorkDir(fs)} :
       /\ sess' = [sess EXCEPT ![c] = work_dir]
       /\ HybridCompilerLoop(c, work_dir, 1,
                             Write(Mkdir(fs, work_dir), work_dir, <<"figures", 0>>,
                                   [call |-> c, n |-> 0]))

\* a child process of the call ends; it may have written its output file
HProcExit(c) ==
  /\ kind[c] = "hybridcompiler" /\ proc[c].st = "running"
  /\ LET t == proc[c].tool
         in == IF t = "typst" THEN <<"main.typ", 0>>
               ELSE IF t = "pdflatex" THEN <<"fig.tex", idx[c] - 1>>
               ELSE <<"fig.pdf", idx[c] - 1>>
         out == IF t = "typst" THEN <<"output.pdf", 0>>
                ELSE IF t = "pdflatex" THEN <<"fig.pdf", idx[c] - 1>>
                ELSE <<"fig.png", idx[c] - 1>>
     IN \E rc \in {0, 1} :
          /\ proc' = [proc EXCEPT ![c].st = IF rc = 0 THEN "exit0" ELSE "exit1"]
          /\ \/ fs' = fs
             \/ /\ Exists(fs, sess[c], in)
                /\ fs' = Write(fs, sess[c], out, Content(fs, sess[c], in))
  /\ UNCHANGED <<kind, pc, keep, src, figs, idx, run, sess, fsess, orphans,
                 warnings, result, doc, nonzero, timedOut, figres, trace, deps>>

\* _compile_figure_to_png after await process.wait() of pdflatex
HResumeFigureLatex(c) ==
  /\ kind[c] = "hybridcompiler" /\ pc[c] = "figure"
  /\ proc[c].tool = "pdflatex" /\ proc[c].st \in {"exit0", "exit1"}
  /\ IF Exists(fs, sess[c], <<"fig.pdf", idx[c] - 1>>)
     THEN HSpawn(c, "figure", "pdftoppm", idx[c], fs, doc[c])
     ELSE HybridCompilerLoop(c, sess[c], idx[c] + 1, fs)
  /\ UNCHANGED <<kind, sess>>

\* _compile_figure_to_png after await process.wait() of pdftoppm
HResumeFigurePpm(c) ==
  /\ kind[c] = "hybridcompiler" /\ pc[c] = "figure"
  /\ proc[c].tool = "pdftoppm" /\ proc[c].st \in {"exit0", "exit1"}
  /\ HybridCompilerLoop(c, sess[c], idx[c] + 1, fs)
  /\ UNCHANGED <<kind, sess>>

\* _compile_typst after await process.wait(): the bytes of output.pdf, or b""
HResumeTypst(c) ==
  /\ kind[c] = "hybridcompiler" /\ pc[c] = "main"
  /\ proc[c].st \in {"exit0", "exit1"}
  /\ pc' = [pc EXCEPT ![c] = "done"]
  /\ proc' = [proc EXCEPT ![c] = NoProc]
  /\ result' = [result EXCEPT ![c] =
                  IF Exists(fs, sess[c], <<"output.pdf", 0>>)
                  THEN Returned(TRUE, Content(fs, sess[c], <<"output.pdf", 0>>), "none", <<>>)
                  ELSE Returned(FALSE, NoBytes, "none", <<>>)]
  /\ UNCHANGED <<kind, keep, src, figs, idx, run, sess, fsess, orphans, warnings,
                 fs, doc, nonzero, timedOut, figres, trace, deps>>

HInit ==
  /\ pc = [c \in Calls |-> "idle"]
  /\ keep = [c \in Calls |-> FALSE]
  /\ src \in [Calls -> HDocs] /\ src["B"] = <<"x">>
  /\ figs \in [Calls -> HFigures] /\ figs["B"] = <<>>
  /\ InitRest

HNext ==
  \E c \in Calls :
    \/ StartHybridCompiler(c) \/ HProcExit(c)
    \/ HResumeFigureLatex(c) \/ HResumeFigurePpm(c) \/ HResumeTypst(c)

HSpec == HInit /\ [][HNext]_vars

\* ------------------------------------------------------------------ properties
MainFailures == {"timeout", "exit", "nopdf", "missing"}

\* C1: when a compile call of matultimate-backend returns or raises, its
\* session directory is gone if keep_temp_files is false and is still there
\* if keep_temp_files is true.
C1_SessionRemovedOnExit ==
  [][\A c \in Calls :
       (pc[c] # "done" /\ pc'[c] = "done" /\ kind'[c] \in MBKinds) =>
         LET d == IF kind'[c] = "figure" THEN fsess'[c] ELSE sess'[c]
         IN (d \in fs'.dirs) <=> keep[c]]_vars

\* the session directories in use: <<call, role, directory>>
Sessions(c) ==
  (IF InFlight(c) /\ sess[c] # NoDir THEN {<<c, "request", sess[c]>>} ELSE {})
  \cup (IF pc[c] = "figure" THEN {<<c, "figure", fsess[c]>>} ELSE {})

\* C2: no two compile calls in flight at the same time (requests and the
\* figure compilations inside them alike) use the same session directory.
C2_DistinctSessions ==
  \A s, t \in UNION {Sessions(c) : c \in Calls} : s # t => s[3] # t[3]

\* C3: concurrent compile_hybrid calls do not interfere: the session
\* directory of a call in flight holds only that call's files, and the PDF a
\* call returns was compiled from its own source.
C3_NoInterference ==
  \A c \in Calls : kind[c] = "hybrid" =>
    /\ InFlight(c) => \A x \in fs.files : x.dir = sess[c] => x.by.call = c
    /\ (Done(c) /\ result[c].success) => result[c].bytes.call = c

\* C4: a compile_hybrid request fails only through a failure of the main
\* Typst compile, never because of a figure.
C4_OnlyMainCompileFails ==
  \A c \in Calls :
    (kind[c] = "hybrid" /\ Done(c) /\ ~result[c].success) =>
      result[c].cause \in MainFailures

\* C5: a failed compile_typst, compile_latex or compile_hybrid call hands
\* the caller a returned result with success=false and the warnings gathered
\* so far; nothing is raised.
C5_FailureIsReturned ==
  \A c \in Calls :
    (kind[c] \in {"typst", "latex", "hybrid"} /\ Done(c) /\ ~result[c].success) =>
      /\ result[c].status = "returned"
      /\ result[c].warnings = warnings[c]

\* C6: a compile call reports success only if every run of the main engine
\* exited with code zero and there is a PDF.
C6_SuccessMeansCleanExit ==
  \A c \in Calls :
    (kind[c] \in {"typst", "latex", "hybrid", "bhybrid"} /\ Done(c) /\ result[c].success) =>
      /\ ~nonzero[c]
      /\ result[c].bytes # NoBytes

\* the figures of the request (by position) that did not compile
Failed(c) ==
  {i \in 1..Len(figs[c]) :
     \/ kind[c] = "hybrid" /\ figs[c][i].latex = ""
     \/ \E k \in 1..Len(figres[c]) : figres[c][k].n = i /\ ~figres[c][k].success}

NoSanitizerWarnings(c) ==
  kind[c] = "hybrid" => Sanitize(RewriteImagePaths(src[c]), "typst", FALSE).warnings = <<>>

\* C7: when the main document gives no sanitizer warnings, the warnings that
\* compile_hybrid returns have exactly one entry for each figure that failed,
\* none for a figure that succeeded, and each entry names its figure.
C7_OneWarningPerFailedFigure ==
  \A c \in Calls :
    (kind[c] \in {"hybrid", "bhybrid"} /\ Done(c) /\ result[c].status = "returned"
       /\ NoSanitizerWarnings(c)) =>
      LET w == result[c].warnings
      IN /\ Len(w) = Cardinality(Failed(c))
         /\ \A i \in 1..Len(figs[c]) :
              Cardinality({k \in 1..Len(w) : w[k].t # "san" /\ w[k].id = figs[c][i].id})
                = IF i \in Failed(c) THEN 1 ELSE 0

\* two figures, the first compiled, the second failed: one warning, naming the second
C7_Witness ==
  \E c \in Calls :
    /\ kind[c] = "hybrid" /\ Done(c) /\ result[c].status = "returned"
    /\ Len(figs[c]) = 2 /\ Failed(c) = {2}
    /\ \E k \in 1..Len(figres[c]) : figres[c][k].n = 1 /\ figres[c][k].success
    /\ Len(result[c].warnings) = 1
    /\ result[c].warnings[1].id = figs[c][2].id

\* C8: the figure warnings that compile_hybrid returns are in ascending
\* order of figure id, whatever the order of the figures in the request.
C8_WarningsSortedById ==
  \A c \in Calls :
    (kind[c] = "hybrid" /\ Done(c) /\ result[c].status = "returned") =>
      LET w == result[c].warnings
      IN \A i, j \in 1..Len(w) :
           (i < j /\ w[i].t # "san" /\ w[j].t # "san") => w[i].id <= w[j].id

\* C9: every compile call that has started ends, even when an external tool
\* never exits.
C9_Terminates ==
  \A c \in Calls : InFlight(c) ~> Done(c)

\* C10: after a compile call in which a deadline expired has returned or
\* raised, none of its child processes is still running.
C10_NoProcessAfterTimeout ==
  \A c \in Calls :
    (Done(c) /\ timedOut[c]) => (orphans[c] = {} /\ proc[c].st # "running")

\* C11: a compile call of matultimate-backend that was cancelled while it
\* awaited a child process (and does not keep its temporary files) has ended
\* with no child process of its own still running and with its session
\* directories removed.
C11_CancelLeavesNothing ==
  \A c \in Calls :
    (kind[c] \in MBKinds /\ Done(c) /\ result[c].status = "cancelled" /\ ~keep[c]) =>
      /\ orphans[c] = {}
      /\ sess[c] \notin fs.dirs
      /\ fsess[c] \notin fs.dirs

\* the main compile of a hybrid call failed
MainCompileFailed(c) ==
  /\ kind[c] \in {"hybrid", "bhybrid"} /\ Done(c)
  /\ result[c].status \in {"returned", "raised"} /\ ~result[c].success
  /\ kind[c] = "hybrid" => result[c].cause \in MainFailures

\* C12: when the main compile of compile_hybrid fails, whatever the kind of
\* failure, the caller gets no PDF bytes and a log that is not empty.
C12_FailureHasLog ==
  \A c \in Calls :
    MainCompileFailed(c) =>
      /\ result[c].bytes = NoBytes
      /\ result[c].log \notin {"empty", "none"}

\* the number of references to figure id in text: open is "q" for a relative
\* path, "Q" for an absolute one
Refs(text, open, id) ==
  Cardinality({k \in 1..(Len(text) - 1) : text[k] = open /\ text[k + 1] = ToString(id)})

\* compile_hybrid has written the main document
MainWritten(c) ==
  kind[c] = "hybrid" /\ \E k \in 1..Len(trace[c]) : trace[c][k].e = "main"

\* C13: in the document compile_hybrid writes for the main compile, the
\* references to a figure that failed are as they were in the input.
C13_FailedFigureRefsUntouched ==
  \A c \in Calls :
    MainWritten(c) =>
      \A i \in Failed(c) :
        /\ Refs(doc[c], "q", figs[c][i].id) = Refs(src[c], "q", figs[c][i].id)
        /\ Refs(doc[c], "Q", figs[c][i].id) = 0

\* C14: in the document compile_hybrid writes for the main compile, every
\* reference to a figure that compiled is an absolute path, whether the
\* input had it as #image(...) or as image(...) inside another call.
C14_CompiledFigureRefsAbsolute ==
  \A c \in Calls :
    MainWritten(c) =>
      \A i \in (1..Len(figs[c])) \ Failed(c) :
        /\ Refs(doc[c], "q", figs[c][i].id) = 0
        /\ Refs(doc[c], "Q", figs[c][i].id) = Refs(src[c], "q", figs[c][i].id)

\* C15: in compile_hybrid the rewriting of the image paths starts only when
\* every figure with LaTeX code has been compiled to its end and no figure
\* compilation runs after it; the main compile starts only after the
\* rewriting.
C15_FiguresThenRewriteThenMain ==
  \A c \in Calls :
    kind[c] = "hybrid" =>
      LET tr == trace[c]
      IN \A k \in 1..Len(tr) :
           /\ tr[k].e = "rewrite" =>
                /\ \A i \in 1..Len(figs[c]) :
                     figs[c][i].latex # "" =>
                       \E m, n \in 1..(k - 1) :
                         m < n /\ tr[m] = Ev("figure", i) /\ tr[n] = Ev("figend", i)
                /\ \A m \in (k + 1)..Len(tr) : tr[m].e \notin {"figure", "figend"}
           /\ tr[k].e = "main" => \E m \in 1..(k - 1) : tr[m].e = "rewrite"

\* two figures compiled one after the other, then the rewriting, then typst
C15_Witness ==
  \E c \in Calls :
    /\ kind[c] = "hybrid" /\ Done(c) /\ result[c].success
    /\ Len(figs[c]) = 2 /\ Failed(c) = {}
    /\ trace[c] = <<Ev("figure", 1), Ev("figend", 1), Ev("figure", 2), Ev("figend", 2),
                     Ev("rewrite", 0), Ev("sanitize", 0), Ev("main", 0)>>

\* the place of a phase in the order sanitize, figures, rewrite, main
Rank(ev) ==
  IF ev.e = "sanitize" THEN 1
  ELSE IF ev.e \in {"figure", "figend"} THEN 2
  ELSE IF ev.e = "rewrite" THEN 3
  ELSE 4

\* C16: the phases of compile_hybrid run in the order sanitize, compile
\* figures, rewrite, compile main: the source is sanitized before the first
\* figure compilation and before the rewriting.
C16_SanitizeFirst ==
  \A c \in Calls :
    kind[c] = "hybrid" =>
      LET tr == trace[c]
      IN /\ \A k, m \in 1..Len(tr) : k < m => Rank(tr[k]) <= Rank(tr[m])
         /\ tr # <<>> => tr[1].e = "sanitize"

\* C17: CodeSanitizer.sanitize is idempotent for both formats: sanitizing
\* the cleaned code of a first pass gives that cleaned code back.
C17_SanitizeIdempotent ==
  [][\A c \in Calls :
       (kind[c] \in SanKinds /\ idx[c] = 1 /\ idx'[c] = 2) => doc'[c] = doc[c]]_vars

\* C18: for every language tag and every body without a fence that needs no
\* whitespace normalization (and has no whitespace around it), one pass of
\* CodeSanitizer.sanitize or of strip_markdown_fences over the fenced body,
\* with or without the closing fence, gives exactly the body.
C18_FencedBodyRecovered ==
  \A c \in Calls :
    (idx[c] = 1 /\ kind[c] \in SanKinds \cup {"strip"}) =>
      \A lang \in Tags, body \in Bodies, closed \in BOOLEAN :
        src[c] = Fenced(lang, body, closed) => doc[c] = body

\* C19: strip_markdown_fences is idempotent, and a text without a fence
\* comes back as it was apart from the whitespace around it.
C19_StripIdempotent ==
  [][\A c \in Calls :
       kind'[c] = "strip" =>
         /\ (idx[c] = 1 /\ idx'[c] = 2) => doc'[c] = doc[c]
         /\ (idx[c] = 0 /\ idx'[c] = 1 /\ Count(src[c], FENCE) = 0) =>
              doc'[c] = Strip(src[c])]_vars

\* C20: compile_latex_figure_to_png of matultimate-backend reports a failure
\* whenever pdflatex exited non-zero or left no figure.pdf.
C20_FigureFailsOnEngineError ==
  \A c \in Calls :
    (kind[c] = "figure" /\ Done(c) /\ result[c].status = "returned"
       /\ (nonzero[c] \/ (fsess[c] \in fs.dirs /\ ~Exists(fs, fsess[c], FIGPDF)))) =>
      ~result[c].success

\* C21: a figure whose pdflatex run exceeds the deadline gives a FigureResult
\* with success false, no bytes and the log of a timeout; in compile_hybrid
\* that figure gets a warning naming it, and the call goes on after it to the
\* next figure or to the rewriting.
C21_FigureTimeoutIsWarning ==
  \A c \in Calls :
    /\ (kind[c] = "figure" /\ Done(c) /\ timedOut[c]) =>
         /\ result[c].status = "returned" /\ ~result[c].success
         /\ result[c].bytes = NoBytes /\ result[c].log = "timeout"
    /\ kind[c] = "hybrid" =>
         \A k \in 1..Len(figres[c]) :
           figres[c][k].expired =>
             LET n == figres[c][k].n
                 tr == trace[c]
             IN /\ ~figres[c][k].success /\ figres[c][k].log = "timeout"
                /\ \E m \in 1..Len(warnings[c]) :
                     warnings[c][m] = [t |-> "failed", id |-> figs[c][n].id]
                /\ \E m \in 1..(Len(tr) - 1) :
                     /\ tr[m] = Ev("figend", n)
                     /\ tr[m + 1] \in {Ev("figure", j) : j \in (n + 1)..Len(figs[c])}
                                       \cup {Ev("rewrite", 0)}

\* the first of two figures timed out, the second was compiled after it
C21_Witness ==
  \E c \in Calls :
    /\ kind[c] = "hybrid" /\ Done(c) /\ result[c].status = "returned"
    /\ Len(figres[c]) = 2
    /\ figres[c][1].n = 1 /\ figres[c][1].expired
    /\ figres[c][2].n = 2 /\ figres[c][2].success
    /\ result[c].warnings[1] = [t |-> "failed", id |-> figs[c][1].id]

\* C22: every call of check_dependencies returns, without raising, an entry
\* for each of typst, pdflatex and pdftoppm with a boolean installed; a tool
\* whose binary could not be run has installed false and an error text; the
\* call creates no directory and changes nothing of the compiler or of the
\* compile calls in flight.
C22_CheckDependenciesReports ==
  [][deps' # deps =>
       /\ deps'.status = "returned"
       /\ DOMAIN deps'.results = DepTools
       /\ \A t \in DepTools :
            /\ deps'.results[t].installed \in BOOLEAN
            /\ deps'.ran[t] = "raise" =>
                 (~deps'.results[t].installed /\ deps'.results[t].error = "text")
       /\ fs' = fs
       /\ UNCHANGED <<keep, sess, fsess, proc, orphans, pc, result>>]_vars

\* a check during a compile call: pdftoppm could not be run, typst answered
C22_Witness ==
  /\ deps.status = "returned"
  /\ deps.ran["pdftoppm"] = "raise" /\ ~deps.results["pdftoppm"].installed
  /\ deps.ran["typst"] = "exit0" /\ deps.results["typst"].installed
  /\ \E c \in Calls : InFlight(c) /\ sess[c] \in fs.dirs

\* the pass an entry of changes comes from, by its place in the order fence
\* stripping, cross-dialect repair, balance check, whitespace normalization
PassRank(ev) ==
  IF ev.e \in {"fence", "fenceline"} THEN 1
  ELSE IF ev.e = "repair" THEN 2
  ELSE 4

\* C23: the changes that CodeSanitizer.sanitize reports are in the order of
\* the passes fence stripping, cross-dialect repair, balance check,
\* whitespace normalization: no repair entry comes after a whitespace entry.
C23_ChangesInPassOrder ==
  \A c \in Calls :
    (kind[c] \in SanKinds \cup AggressiveKinds /\ idx[c] >= 1) =>
      \A i, j \in 1..Len(trace[c]) :
        i < j => PassRank(trace[c][i]) <= PassRank(trace[c][j])

\* the warning of _fix_typst for each pair of brackets
BracketWarning == [round |-> 2, square |-> 1, curly |-> 3]
Brackets == [round |-> <<"(", ")">>, square |-> <<"[", "]">>, curly |-> <<"{", "}">>]

\* C24: for either format, when the cleaned text has unequal numbers of
\* opening and closing brackets of a kind, the result of sanitize carries a
\* warning for that kind (and sanitize has returned).
C24_ImbalanceIsWarned ==
  \A c \in Calls :
    (kind[c] \in SanKinds /\ idx[c] >= 1) =>
      \A b \in DOMAIN Brackets :
        Count(doc[c], Brackets[b][1]) # Count(doc[c], Brackets[b][2]) =>
          \E m \in 1..Len(warnings[c]) :
            warnings[c][m] = [t |-> "san", id |-> BracketWarning[b]]

\* C25: the Typst text that compile_typst and compile_hybrid hand to the
\* engine holds none of the LaTeX control sequences of the substitution table.
C25_NoLegacyInTypstSource ==
  \A c \in Calls :
    (kind[c] \in {"typst", "hybrid"} /\ pc[c] \in {"main", "done"}) =>
      \A k \in 1..Len(doc[c]) : doc[c][k] \notin Legacy

\* C26: fence stripping of CodeSanitizer takes away at most one fence at the
\* start and one at the end of the text; a body between them comes back as
\* it was, also when one of its lines starts with a fence, and so does a
\* text whose only fence is on an inner line.
C26_InnerLinesUntouched ==
  \A c \in Calls :
    (kind[c] \in SanKinds /\ idx[c] = 1) =>
      /\ src[c] \in InnerBodies => doc[c] = src[c]
      /\ \A lang \in PlainTags, body \in InnerBodies, closed \in BOOLEAN :
           src[c] = Fenced(lang, body, closed) => doc[c] = body

\* C27: in the cleaned code of sanitize, for every input, format and mode,
\* no line ends with whitespace and no more than two blank lines follow
\* each other.
C27_WhitespaceNormalized ==
  \A c \in Calls :
    (kind[c] \in SanKinds \cup AggressiveKinds /\ idx[c] >= 1) =>
      /\ \A k \in 1..Len(doc[c]) :
           doc[c][k] \in Space => (k < Len(doc[c]) /\ doc[c][k + 1] # NL) \/ doc[c][k] = NL
      /\ doc[c] # <<>> => doc[c][Len(doc[c])] \notin Space
      /\ \A k \in 1..(Len(doc[c]) - 3) : SubSeq(doc[c], k, k + 3) # <<NL, NL, NL, NL>>

\* the main compile of the hybrid call c starts in this step
MainStarts(c) == pc[c] # "main" /\ pc'[c] = "main" /\ kind'[c] = "hybrid"

\* the files of the figure directory, and what the figures left in directory d
FigureFiles(f, d, c, ids) ==
  /\ \A id \in FigIds :
       Exists(f, d, Png(id)) <=> \E k \in 1..Len(ids) : ids[k].success /\ ids[k].id = id
  /\ \A k \in 1..Len(ids) :
       ids[k].success => Content(f, d, Png(ids[k].id)) = ids[k].bytes
  /\ \A k \in 1..Len(ids) :
       ~ids[k].success => ~\E x \in f.files : x.dir = d /\ x.by = [call |-> c, n |-> ids[k].n]

\* C28: when the main compile of compile_hybrid starts (the ids of FigureLists
\* are unique),
\* the figure directory of the session holds <id>.png exactly for the figures
\* that compiled, each with the PNG bytes returned for it, and a failed
\* figure has left no file in the session of the request.
C28_FigureDirMatchesResults ==
  [][\A c \in Calls :
       MainStarts(c) =>
         FigureFiles(fs', sess'[c], c,
                     [k \in 1..Len(figres'[c]) |->
                        [id |-> figs[c][figres'[c][k].n].id, n |-> figres'[c][k].n,
                         success |-> figres'[c][k].success,
                         bytes |-> figres'[c][k].bytes]])]_vars

\* C29: after HybridCompiler.compile_hybrid has returned, with PDF bytes or
\* with empty bytes, its working directory and every file written into it
\* are gone from the disk.
C29_WorkDirRemoved ==
  \A c \in Calls :
    (kind[c] = "hybridcompiler" /\ pc[c] = "done" /\ result[c].status = "returned") =>
      /\ sess[c] \notin fs.dirs
      /\ ~\E x \in fs.files : x.dir = sess[c]

\* C30: every FigureResult that compile_latex_figure_to_png has returned:
\* with success, png_bytes is there, png_base64 is the encoding of those
\* bytes and log is empty; without success, png_bytes and png_base64 are
\* absent.
C30_FigureResultWellFormed ==
  \A c \in Calls :
    kind[c] \in {"figure", "hybrid"} =>
      \A k \in 1..Len(figres[c]) :
        LET r == figres[c][k]
        IN /\ r.success =>
                (r.bytes # NoBytes /\ r.b64 = Base64(r.bytes) /\ r.log = "empty")
           /\ ~r.success => (r.bytes = NoBytes /\ r.b64 = NoBase64)

\* a request that got a PNG for one figure and a failure for the other
C30_Witness ==
  \E c \in Calls :
    /\ kind[c] = "hybrid" /\ Len(figres[c]) = 2
    /\ figres[c][1].success /\ figres[c][1].b64 = <<"b64", [call |-> c, n |-> 1]>>
    /\ ~figres[c][2].success /\ figres[c][2].log = "timeout"

====
